---- MODULE Spec2Model ----
(***************************************************************************)
(* Lumina-Layers: the 3MF name-fix / assembly / colorize pipeline of      *)
(* utils/helpers.py and utils/add_3mf_colors.py.                          *)
(*                                                                         *)
(* The model text is a sequence of tokens: the start of a start tag       *)
(* ("<object"), one token per attribute, the end of a start tag (">" or    *)
(* "/>"), an end tag ("</object>"), and a token that no XML parser takes.  *)
(* The regular expressions of helpers.py act on this sequence by position, *)
(* ElementTree's parse and serialisation turn it into a list of elements   *)
(* and back.  White space between tags is left out.                        *)
(***************************************************************************)
EXTENDS Integers, Sequences, FiniteSets, TLC

VARIABLES
    archive,          \* the file at filepath: [zip, entries]
    orig,             \* the input as it was when the call started
    files_data,       \* dict name -> bytes, in insertion order
    model_file,       \* the chosen model entry name, "" for None
    content,          \* the model text being edited
    obj_info,         \* (start, end, full_tag, id) per object found
    slot_names, create_assembly, enable_colors, color_mode,   \* arguments
    colored,          \* what the last add_colors_to_xml_string call gave
    outcome,          \* how the call ended: "none", "returned" or "raised"
    pc

vars == <<archive, orig, files_data, model_file, content, obj_info,
          slot_names, create_assembly, enable_colors, color_mode,
          colored, outcome, pc>>

-----------------------------------------------------------------------------
(* Bounds *)

MaxObjs == 2          \* objects in an input document, names in slot_names
MaxNames == 3         \* names handed to detect_color_mode on its own

-----------------------------------------------------------------------------
(* Tokens of the model text *)

LT(p, l)    == [t |-> "lt", a |-> p, b |-> l]       \* "<p:l"
ATTR(n, v)  == [t |-> "attr", a |-> n, b |-> v]     \* ' n="v"'
GT          == [t |-> "gt", a |-> "", b |-> ""]     \* ">"
SGT         == [t |-> "sgt", a |-> "", b |-> ""]    \* "/>"
CLOSE(p, l) == [t |-> "close", a |-> p, b |-> l]    \* "</p:l>"
JUNK        == [t |-> "junk", a |-> "", b |-> ""]   \* text no XML parser takes

(* Decimal numerals: int(s) and str(n) of Python for the ids of the model. *)
NumStr == <<"1", "2", "3", "4", "5", "6", "7", "8", "9">>
IsDigits(s) == \E n \in 1..Len(NumStr) : NumStr[n] = s
StrToInt(s) == CHOOSE n \in 1..Len(NumStr) : NumStr[n] = s
IntToStr(n) == NumStr[n]

RECURSIVE MaxOf(_)
MaxOf(s) ==
    IF Len(s) = 1 THEN s[1]
    ELSE LET m == MaxOf(Tail(s)) IN IF s[1] > m THEN s[1] ELSE m

Reverse(s) == [i \in 1..Len(s) |-> s[Len(s) + 1 - i]]

-----------------------------------------------------------------------------
(* Palettes, add_3mf_colors.py *)

RYBW_COLORS == << <<"Red", "#FF0000FF">>, <<"Yellow", "#FFFF00FF">>,
                  <<"Blue", "#0000FFFF">>, <<"White", "#FFFFFFFF">> >>

CMYW_COLORS == << <<"Cyan", "#00FFFFFF">>, <<"Magenta", "#FF00FFFF">>,
                  <<"Yellow", "#FFFF00FF">>, <<"White", "#FFFFFFFF">> >>

(* `name in COLORS` of a dict: membership among its keys *)
InDict(name, dict) == \E i \in 1..Len(dict) : dict[i][1] = name

(* dict.get(key, default) *)
DictGet(dict, key, default) ==
    IF InDict(key, dict)
    THEN dict[CHOOSE i \in 1..Len(dict) : dict[i][1] = key][2]
    ELSE default

(* A get_colorgroup_id that looks every name up in the RYBW table *)
get_colorgroup_id_one_table(color_name, mode) ==
    DictGet(<< <<"Red", "1">>, <<"Yellow", "2">>, <<"Blue", "3">>, <<"White", "4">> >>,
            color_name, "1")

(* l.61-95 *)
get_colorgroup_id(color_name, mode) ==
    LET rybw_map == << <<"Red", "1">>, <<"Yellow", "2">>,
                       <<"Blue", "3">>, <<"White", "4">> >>
        cmyw_map == << <<"Cyan", "1">>, <<"Magenta", "2">>,
                       <<"Yellow", "3">>, <<"White", "4">> >>
        color_to_id_map == IF mode = "cmyw" THEN cmyw_map ELSE rybw_map
    IN DictGet(color_to_id_map, color_name, "1")

RECURSIVE CountIn(_, _)
CountIn(object_names, dict) ==
    IF object_names = <<>> THEN 0
    ELSE (IF InDict(Head(object_names), dict) THEN 1 ELSE 0)
         + CountIn(Tail(object_names), dict)

(* A detect_color_mode that gives ties to cmyw *)
detect_color_mode_ge(object_names) ==
    IF CountIn(object_names, CMYW_COLORS) >= CountIn(object_names, RYBW_COLORS)
    THEN "cmyw" ELSE "rybw"

(* l.98-119 *)
detect_color_mode(object_names) ==
    LET rybw_count == CountIn(object_names, RYBW_COLORS)
        cmyw_count == CountIn(object_names, CMYW_COLORS)
    IN IF cmyw_count > rybw_count THEN "cmyw"
       ELSE IF rybw_count > cmyw_count THEN "rybw"
       ELSE "rybw"

-----------------------------------------------------------------------------
(* The text-level edits of safe_fix_3mf_names, helpers.py *)

Min(S) == CHOOSE x \in S : \A y \in S : x <= y

(* The token that ends the start tag opened at i (its ">" or "/>"), 0 when  *)
(* the text after i is not attributes followed by such a token.             *)
TagEnd(toks, i) ==
    IF \A j \in (i + 1)..Len(toks) : toks[j].t = "attr" THEN 0
    ELSE LET e == CHOOSE j \in (i + 1)..Len(toks) :
                     /\ toks[j].t # "attr"
                     /\ \A k \in (i + 1)..(j - 1) : toks[k].t = "attr"
         IN IF toks[e].t \in {"gt", "sgt"} THEN e ELSE 0

(* object_pattern (l.49) matches at i: "<object", white space (there is    *)
(* some exactly when an attribute follows), then anything up to the next    *)
(* ">".                                                                     *)
ObjectPatternAt(toks, i) ==
    /\ toks[i] = LT("", "object")
    /\ TagEnd(toks, i) > i + 1

(* l.56, the search for id="digits" in the attributes: the first attribute *)
(* id with a value of digits; "" for no match.                              *)
IdMatch(attrs) ==
    LET S == {k \in 1..Len(attrs) : attrs[k].a = "id" /\ IsDigits(attrs[k].b)}
    IN IF S = {} THEN "" ELSE attrs[Min(S)].b

(* l.52-59: obj_info, one (start, end, full_tag, id) per match that has a   *)
(* numeric id; start is the first token of the tag, end the one after it.   *)
ScanObjects(toks, i) ==
    LET at == SelectSeq([j \in 1..Len(toks) |-> j],
                        LAMBDA j : /\ j >= i
                                   /\ ObjectPatternAt(toks, j)
                                   /\ IdMatch(SubSeq(toks, j + 1,
                                                     TagEnd(toks, j) - 1)) # "")
    IN [k \in 1..Len(at) |->
          LET e == TagEnd(toks, at[k])
          IN [start |-> at[k], end |-> e + 1,
              tag |-> SubSeq(toks, at[k], e),
              id |-> IdMatch(SubSeq(toks, at[k] + 1, e - 1))]]

(* l.74-75: drop every name="..." of the tag, cut the last character and    *)
(* append the new name and ">".  Cutting the last character of "/>" leaves  *)
(* a "/" in the tag.                                                        *)
NewTag(old_tag, color_name) ==
    LET kept == SelectSeq(old_tag, LAMBDA x : ~(x.t = "attr" /\ x.a = "name"))
        last == kept[Len(kept)]
        cut  == SubSeq(kept, 1, Len(kept) - 1)
               \o (IF last.t = "sgt" THEN <<JUNK>> ELSE <<>>)
    IN cut \o <<ATTR("name", color_name), GT>>

(* content[:start] + new + content[end:] *)
Splice(text, start, end, new) ==
    SubSeq(text, 1, start - 1) \o new \o SubSeq(text, end, Len(text))

(* A name-fix loop that indexes slot_names by the loop counter *)
RECURSIVE RenameLoopByIdx(_, _, _, _)
RenameLoopByIdx(text, info, names, idx) ==
    IF idx >= Len(info) THEN text
    ELSE LET o == Reverse(info)[idx + 1]
         IN IF idx >= Len(names) THEN RenameLoopByIdx(text, info, names, idx + 1)
            ELSE RenameLoopByIdx(
                     Splice(text, o.start, o.end, NewTag(o.tag, names[idx + 1])),
                     info, names, idx + 1)

(* l.66-77: for idx, (start, end, old_tag, obj_id) in enumerate(reversed(obj_info)) *)
RECURSIVE RenameLoop(_, _, _, _)
RenameLoop(text, info, names, idx) ==
    IF idx >= Len(info) THEN text
    ELSE LET o == Reverse(info)[idx + 1]
             real_idx == Len(info) - 1 - idx
         IN IF real_idx >= Len(names) THEN RenameLoop(text, info, names, idx + 1)
            ELSE RenameLoop(
                     Splice(text, o.start, o.end,
                            NewTag(o.tag, names[real_idx + 1])),
                     info, names, idx + 1)

(* l.86-93: the assembly object *)
RECURSIVE ComponentsXml(_)
ComponentsXml(object_ids) ==
    IF object_ids = <<>> THEN <<>>
    ELSE <<LT("", "component"), ATTR("objectid", Head(object_ids)), SGT>>
         \o ComponentsXml(Tail(object_ids))

AssemblyXml(assembly_id, object_ids) ==
    <<LT("", "object"), ATTR("id", assembly_id), ATTR("type", "model"),
      ATTR("name", "Lumina_Model"), GT, LT("", "components"), GT>>
    \o ComponentsXml(object_ids)
    \o <<CLOSE("", "components"), CLOSE("", "object")>>

(* str.find(sub): the first position of the token, 0 for -1 *)
Find(text, tok) ==
    LET S == {i \in 1..Len(text) : text[i] = tok}
    IN IF S = {} THEN 0 ELSE Min(S)

(* l.96-99 *)
InsertAssembly(text, assembly_id, object_ids) ==
    LET resources_end == Find(text, CLOSE("", "resources"))
    IN IF resources_end # 0
       THEN Splice(text, resources_end, resources_end,
                   AssemblyXml(assembly_id, object_ids))
       ELSE text

(* build_pattern (l.103), non-greedy and DOTALL, searched: the leftmost     *)
(* "<build>" that has a "</build>" after it, up to the first such; <<>>     *)
(* for no match, else <<start, end>>.                                       *)
BuildMatch(text) ==
    LET S == {i \in 1..(Len(text) - 1) :
                 /\ text[i] = LT("", "build")
                 /\ text[i + 1] = GT
                 /\ \E j \in (i + 2)..Len(text) : text[j] = CLOSE("", "build")}
    IN IF S = {} THEN <<>>
       ELSE LET i == Min(S)
                j == Min({k \in (i + 2)..Len(text) : text[k] = CLOSE("", "build")})
            IN <<i, j + 1>>

(* l.103-108 *)
ReplaceBuild(text, assembly_id) ==
    LET build_match == BuildMatch(text)
        new_build == <<LT("", "build"), GT, LT("", "item"),
                       ATTR("objectid", assembly_id), SGT, CLOSE("", "build")>>
    IN IF build_match # <<>>
       THEN Splice(text, build_match[1], build_match[2], new_build)
       ELSE text

ObjectIds(info) == [i \in 1..Len(info) |-> info[i].id]

(* l.79-108 *)
AssembleText(text, object_ids, create) ==
    IF create /\ Len(object_ids) > 1
    THEN LET max_id == MaxOf([i \in 1..Len(object_ids) |-> StrToInt(object_ids[i])])
             assembly_id == IntToStr(max_id + 1)
         IN ReplaceBuild(InsertAssembly(text, assembly_id, object_ids), assembly_id)
    ELSE text

-----------------------------------------------------------------------------
(* ElementTree: parsing the text into elements and writing them back.      *)
(* A document is the list of its elements in document order, each with its *)
(* depth; nid identifies an element across insertions (a Python reference).*)

MODEL_NAMESPACE == "http://schemas.microsoft.com/3dmanufacturing/core/2015/02"
MATERIAL_NAMESPACE == "http://schemas.microsoft.com/3dmanufacturing/material/2015/02"

ParseFail == [ok |-> FALSE, nodes |-> <<>>]

DupAttrs(attrs) ==
    \E i, j \in 1..Len(attrs) : i < j /\ attrs[i].a = attrs[j].a

(* A list with its entries worked out once *)
AsList(f) == SubSeq(f, 1, Len(f))

(* The number of elements open ahead of each token of the text, and after  *)
(* its last one: every ">" opens one, every end tag closes one.            *)
RECURSIVE LevelsOf(_, _, _, _)
RECURSIVE LevelsAfter(_, _, _, _)
LevelsOf(toks, lo, hi, base) ==
    IF lo = hi
    THEN <<base + (IF toks[lo].t = "gt" THEN 1
                   ELSE IF toks[lo].t = "close" THEN -1 ELSE 0)>>
    ELSE LevelsAfter(toks, (lo + hi) \div 2, hi,
                     LevelsOf(toks, lo, (lo + hi) \div 2, base))

LevelsAfter(toks, mid, hi, left) ==
    left \o LevelsOf(toks, mid + 1, hi, left[Len(left)])

Levels(toks) ==
    IF toks = <<>> THEN <<0>> ELSE <<0>> \o LevelsOf(toks, 1, Len(toks), 0)

(* Every token is part of a start tag or is an end tag *)
WellTagged(toks) ==
    \A p \in 1..Len(toks) :
       /\ toks[p].t \in {"lt", "attr", "gt", "sgt", "close"}
       /\ toks[p].t \in {"attr", "gt", "sgt"}
             => (p > 1 /\ toks[p - 1].t \in {"lt", "attr"})
       /\ toks[p].t \in {"lt", "attr"}
             => (p < Len(toks) /\ toks[p + 1].t \in {"attr", "gt", "sgt"})

(* The last of the start tags at starts ahead of position g *)
StartBefore(starts, g) ==
    starts[Cardinality({k \in 1..Len(starts) : starts[k] < g})]

(* The start tag of the element still open at end tag c; starts holds the  *)
(* positions of the start tags and lvl the levels.                         *)
Opener(toks, lvl, starts, c) ==
    StartBefore(starts,
        CHOOSE x \in 1..(c - 1) :
           /\ toks[x].t = "gt" /\ lvl[x] = lvl[c] - 1
           /\ \A y \in (x + 1)..(c - 1) : toks[y].t = "gt" => lvl[y] # lvl[x])

SameTag(a, b) == a.a = b.a /\ a.b = b.b

(* The well-formedness ET.fromstring insists on: one root, every start tag *)
(* closed by its own end tag, no attribute twice, nothing it cannot read.  *)
ParseChecked(toks, lvl, starts, nodes) ==
    IF /\ starts # <<>>
       /\ lvl[Len(toks) + 1] = 0
       /\ \A k \in 2..Len(starts) : lvl[starts[k]] >= 1
       /\ \A k \in 1..Len(nodes) : ~DupAttrs(nodes[k].attrs)
       /\ \A c \in 1..Len(toks) :
             toks[c].t = "close" =>
                /\ lvl[c] >= 1
                /\ SameTag(toks[Opener(toks, lvl, starts, c)], toks[c])
    THEN [ok |-> TRUE, nodes |-> nodes]
    ELSE ParseFail

(* The elements in document order, each with its depth *)
ParseTags(toks, lvl, starts) ==
    ParseChecked(toks, lvl, starts,
        AsList([k \in 1..Len(starts) |->
                  [nid |-> k, depth |-> lvl[starts[k]],
                   ns |-> toks[starts[k]].a, local |-> toks[starts[k]].b,
                   attrs |-> SubSeq(toks, starts[k] + 1,
                                    TagEnd(toks, starts[k]) - 1)]]))

ParseNodes(toks) ==
    IF ~WellTagged(toks) THEN ParseFail
    ELSE ParseTags(toks, Levels(toks),
                   SelectSeq([j \in 1..Len(toks) |-> j],
                             LAMBDA j : toks[j].t = "lt"))

AttrHas(attrs, n) == \E i \in 1..Len(attrs) : attrs[i].a = n

(* Element.get(n, default) *)
AttrGet(attrs, n, default) ==
    IF AttrHas(attrs, n)
    THEN attrs[Min({i \in 1..Len(attrs) : attrs[i].a = n})].b
    ELSE default

(* Element.set(n, v): an existing key keeps its place, a new one goes last *)
AttrSet(attrs, n, v) ==
    IF AttrHas(attrs, n)
    THEN [i \in 1..Len(attrs) |-> IF attrs[i].a = n THEN ATTR(n, v) ELSE attrs[i]]
    ELSE Append(attrs, ATTR(n, v))

IsXmlns(x) == x.a \in {"xmlns", "xmlns:m"}

(* ET.fromstring: prefixes are resolved against the declarations of the    *)
(* root (the only place the documents of the model declare any), and the   *)
(* declarations are not attributes of the element.                         *)
Resolved(nodes, decl) ==
    IF \E k \in 1..Len(nodes) :
          nodes[k].ns # "" /\ ~(nodes[k].ns = "m" /\ AttrHas(decl, "xmlns:m"))
    THEN ParseFail
    ELSE [ok |-> TRUE,
          nodes |-> AsList([k \in 1..Len(nodes) |->
                       [nodes[k] EXCEPT
                           !.ns = IF @ = "" THEN AttrGet(decl, "xmlns", "")
                                  ELSE AttrGet(decl, "xmlns:m", ""),
                           !.attrs = SelectSeq(@, LAMBDA x : ~IsXmlns(x))]])]

ParseResolved(raw) ==
    IF ~raw.ok THEN ParseFail ELSE Resolved(raw.nodes, raw.nodes[1].attrs)

Parse(toks) == ParseResolved(ParseNodes(toks))

(* The prefix the registered namespaces give a URI (register_namespaces,   *)
(* l.46-58): none for the core namespace, m for the material one.          *)
PrefixOf(uri) == IF uri = MATERIAL_NAMESPACE THEN "m" ELSE ""

(* The last element of the subtree of element k *)
SubtreeEnd(tree, k) ==
    IF \A j \in (k + 1)..Len(tree) : tree[j].depth > tree[k].depth
    THEN Len(tree)
    ELSE (CHOOSE j \in (k + 1)..Len(tree) :
             /\ tree[j].depth <= tree[k].depth
             /\ \A i \in (k + 1)..(j - 1) : tree[i].depth > tree[k].depth) - 1

(* list(element): the positions of the direct children of element k *)
Children(tree, k) ==
    LET last == SubtreeEnd(tree, k)
        below == tree[k].depth + 1
    IN SelectSeq([j \in 1..Len(tree) |-> j],
                 LAMBDA j : j > k /\ j <= last /\ tree[j].depth = below)

(* ET.tostring(root, short_empty_elements=False): every element is written *)
(* with a start and an end tag; the root declares the namespaces in use,   *)
(* ahead of its attributes and sorted by prefix.                           *)
(* The end tags due once element k - 1 is written and an element of depth *)
(* d comes next: those of the elements open at depth d or more, innermost  *)
(* first.                                                                  *)
CloseTags(tree, k, d) ==
    IF k = 1 THEN <<>>
    ELSE [x \in 1..(tree[k - 1].depth - d + 1) |->
            LET a == CHOOSE j \in 1..(k - 1) :
                        /\ tree[j].depth = tree[k - 1].depth - x + 1
                        /\ \A y \in (j + 1)..(k - 1) :
                              tree[y].depth # tree[j].depth
            IN CLOSE(PrefixOf(tree[a].ns), tree[a].local)]

(* The pieces lo..hi of a list of texts, joined *)
RECURSIVE Join(_, _, _)
Join(pieces, lo, hi) ==
    IF lo > hi THEN <<>>
    ELSE IF lo = hi THEN pieces[lo]
    ELSE LET mid == (lo + hi) \div 2
         IN Join(pieces, lo, mid) \o Join(pieces, mid + 1, hi)

SerializeFrom(tree, decls) ==
    LET piece == AsList([k \in 1..(Len(tree) + 1) |->
                    IF k > Len(tree) THEN CloseTags(tree, k, 0)
                    ELSE CloseTags(tree, k, tree[k].depth)
                         \o <<LT(PrefixOf(tree[k].ns), tree[k].local)>>
                         \o (IF k = 1 THEN decls ELSE <<>>)
                         \o tree[k].attrs \o <<GT>>])
    IN Join(piece, 1, Len(piece))

Serialize(tree) ==
    LET used == {tree[k].ns : k \in 1..Len(tree)}
        decls == (IF MODEL_NAMESPACE \in used
                  THEN <<ATTR("xmlns", MODEL_NAMESPACE)>> ELSE <<>>)
                 \o (IF MATERIAL_NAMESPACE \in used
                     THEN <<ATTR("xmlns:m", MATERIAL_NAMESPACE)>> ELSE <<>>)
    IN SerializeFrom(tree, decls)

-----------------------------------------------------------------------------
(* add_3mf_colors.py: the structural pipeline *)

(* element.tag is "{uri}local", or "local" without a namespace;             *)
(* tag.split('}') gives its pieces.                                         *)
TagSplit(n) ==
    IF n.ns = "" THEN <<n.local>> ELSE <<"{" \o n.ns, n.local>>

(* 'name' in child.tag.split('}') *)
InTag(name, n) ==
    LET pieces == TagSplit(n)
    IN \E i \in 1..Len(pieces) : pieces[i] = name

(* The first child of element k with the local name, 0 for None *)
FirstChild(tree, k, name) ==
    LET last == SubtreeEnd(tree, k)
        below == tree[k].depth + 1
        S == {j \in (k + 1)..last : tree[j].depth = below /\ InTag(name, tree[j])}
    IN IF S = {} THEN 0 ELSE Min(S)

(* Element.find(path) with a plain tag: the first child whose tag is        *)
(* exactly that, namespace included; 0 for None.                            *)
FindExact(tree, k, ns, name) ==
    LET last == SubtreeEnd(tree, k)
        below == tree[k].depth + 1
        S == {j \in (k + 1)..last :
                 tree[j].depth = below /\ tree[j].ns = ns /\ tree[j].local = name}
    IN IF S = {} THEN 0 ELSE Min(S)

(* An is_assembly that finds no assembly *)
is_assembly_never(tree, k) == FALSE

(* l.122-143 *)
is_assembly(tree, k) ==
    IF FindExact(tree, k, "", "components") # 0 THEN TRUE
    ELSE FirstChild(tree, k, "components") # 0

(* l.211-233: the resources element get_objects_info works on, 0 for None  *)
FindResources(tree) ==
    LET plain == FindExact(tree, 1, "", "resources")
        tag_namespace == tree[1].ns
        same == IF plain = 0 /\ tag_namespace # ""
                THEN FindExact(tree, 1, tag_namespace, "resources") ELSE plain
    IN IF same # 0 THEN same ELSE FirstChild(tree, 1, "resources")

(* l.235-248: the catalog; element is the reference to the object element  *)
get_objects_info(tree) ==
    LET resources == FindResources(tree)
        kids == SelectSeq(Children(tree, resources),
                          LAMBDA j : InTag("object", tree[j]))
    IN [i \in 1..Len(kids) |->
          [element |-> tree[kids[i]].nid,
           id |-> AttrGet(tree[kids[i]].attrs, "id", "None"),
           name |-> AttrGet(tree[kids[i]].attrs, "name", ""),
           type |-> AttrGet(tree[kids[i]].attrs, "type", "model"),
           is_assembly |-> is_assembly(tree, kids[i])]]

IdxOf(tree, nid) == CHOOSE k \in 1..Len(tree) : tree[k].nid = nid

(* l.338-349: one colorgroup element, with its color child, for a palette  *)
(* entry; depth 0 until it is put under a parent.                          *)
ColorgroupElement(entry, mode) ==
    << [nid |-> 0, depth |-> 0, ns |-> MATERIAL_NAMESPACE, local |-> "colorgroup",
        attrs |-> <<ATTR("id", get_colorgroup_id(entry[1], mode))>>],
       [nid |-> 0, depth |-> 1, ns |-> MATERIAL_NAMESPACE, local |-> "color",
        attrs |-> <<ATTR("color", entry[2])>>] >>

(* Put the subtree sub under element k at flat position at, with fresh nids *)
PutAt(tree, k, at, sub) ==
    LET placed == [i \in 1..Len(sub) |->
                     [sub[i] EXCEPT !.nid = Len(tree) + i,
                                    !.depth = tree[k].depth + 1 + sub[i].depth]]
    IN SubSeq(tree, 1, at - 1) \o placed \o SubSeq(tree, at, Len(tree))

(* parent.insert(index, element), index counted from 0; past the end it    *)
(* appends.                                                                *)
InsertChild(tree, k, index, sub) ==
    LET kids == Children(tree, k)
    IN IF index < Len(kids) THEN PutAt(tree, k, kids[index + 1], sub)
       ELSE PutAt(tree, k, SubtreeEnd(tree, k) + 1, sub)

(* parent.append(element) *)
AppendChild(tree, k, sub) == PutAt(tree, k, SubtreeEnd(tree, k) + 1, sub)

(* l.354-358: the index of the first object child, -1 for None *)
ObjectIndex(tree, resources) ==
    LET kids == Children(tree, resources)
        S == {i \in 1..Len(kids) : InTag("object", tree[kids[i]])}
    IN IF S = {} THEN -1 ELSE Min(S) - 1

(* l.362-367: for colorgroup in reversed(colorgroup_elements); elements is *)
(* what is left of the list, its last entry the next one of the loop.      *)
RECURSIVE InsertLoop(_, _, _, _)
InsertLoop(tree, rnid, object_index, elements) ==
    IF elements = <<>> THEN tree
    ELSE LET colorgroup == elements[Len(elements)]
             rest == SubSeq(elements, 1, Len(elements) - 1)
         IN IF object_index # -1
            THEN InsertLoop(InsertChild(tree, IdxOf(tree, rnid), object_index,
                                        colorgroup),
                            rnid, object_index, rest)
            ELSE InsertLoop(AppendChild(tree, IdxOf(tree, rnid), colorgroup),
                            rnid, object_index, rest)

PaletteOf(mode) == IF mode = "cmyw" THEN CMYW_COLORS ELSE RYBW_COLORS

(* An insertion guarded against a second run: a document that already     *)
(* holds a colorgroup is left as it is.                                     *)
insert_colorgroups_once(tree, resources, mode) ==
    LET colors == PaletteOf(mode)
        colorgroup_elements ==
            [i \in 1..Len(colors) |-> ColorgroupElement(colors[i], mode)]
        colorgroup_map ==
            [i \in 1..Len(colors) |->
                <<colors[i][1], get_colorgroup_id(colors[i][1], mode)>>]
        object_index == ObjectIndex(tree, resources)
    IN [tree |-> IF \E k \in 1..Len(tree) : tree[k].local = "colorgroup"
                 THEN tree
                 ELSE InsertLoop(tree, tree[resources].nid, object_index,
                                 colorgroup_elements),
        map |-> colorgroup_map]

(* l.311-371: returns the document and colorgroup_map *)
insert_colorgroups(tree, resources, mode) ==
    LET colors == PaletteOf(mode)
        colorgroup_elements ==
            [i \in 1..Len(colors) |-> ColorgroupElement(colors[i], mode)]
        colorgroup_map ==
            [i \in 1..Len(colors) |->
                <<colors[i][1], get_colorgroup_id(colors[i][1], mode)>>]
        object_index == ObjectIndex(tree, resources)
    IN [tree |-> InsertLoop(tree, tree[resources].nid, object_index,
                            colorgroup_elements),
        map |-> colorgroup_map]

(* l.431-437: pid and p1 on every triangle child of the triangles element  *)
TagTriangles(tree, triangles, colorgroup_id) ==
    LET last == SubtreeEnd(tree, triangles)
        below == tree[triangles].depth + 1
    IN
    AsList([j \in 1..Len(tree) |->
        IF /\ j > triangles /\ j <= last
           /\ tree[j].depth = below
           /\ InTag("triangle", tree[j])
        THEN [tree[j] EXCEPT
                 !.attrs = AttrSet(AttrSet(@, "pid", colorgroup_id), "p1", "0")]
        ELSE tree[j]])

(* l.393-440, one pass of the loop over the catalog *)
ColorObject(tree, obj, colorgroup_map) ==
    IF obj.is_assembly THEN tree
    ELSE IF ~InDict(obj.name, colorgroup_map) THEN tree
    ELSE LET colorgroup_id == DictGet(colorgroup_map, obj.name, "")
             mesh == FirstChild(tree, IdxOf(tree, obj.element), "mesh")
             triangles == IF mesh = 0 THEN 0
                          ELSE FirstChild(tree, mesh, "triangles")
         IN IF mesh = 0 \/ triangles = 0 THEN tree
            ELSE TagTriangles(tree, triangles, colorgroup_id)

(* l.376-444 *)
RECURSIVE add_triangle_colors(_, _, _)
add_triangle_colors(tree, objects, colorgroup_map) ==
    IF objects = <<>> THEN tree
    ELSE add_triangle_colors(ColorObject(tree, Head(objects), colorgroup_map),
                             Tail(objects), colorgroup_map)

(* A tagging of the build items that does not look the partnumber up: every *)
(* item that has one gets a materialid.                                     *)
add_build_materials_any(tree, colorgroup_map) ==
    AsList([j \in 1..Len(tree) |->
       IF InTag("item", tree[j]) /\ AttrGet(tree[j].attrs, "partnumber", "") # ""
       THEN [tree[j] EXCEPT
                !.attrs = AttrSet(@, "materialid",
                             DictGet(colorgroup_map,
                                 AttrGet(tree[j].attrs, "partnumber", ""), "1"))]
       ELSE tree[j]])

(* l.449-496 *)
add_build_materials(tree, colorgroup_map) ==
    LET build == FirstChild(tree, 1, "build")
    IN IF build = 0 THEN tree
       ELSE LET last == SubtreeEnd(tree, build)
                below == tree[build].depth + 1
            IN
            AsList([j \in 1..Len(tree) |->
               IF /\ j > build /\ j <= last
                  /\ tree[j].depth = below
                  /\ InTag("item", tree[j])
                  /\ InDict(AttrGet(tree[j].attrs, "partnumber", ""), colorgroup_map)
               THEN [tree[j] EXCEPT
                        !.attrs = AttrSet(@, "materialid",
                                     DictGet(colorgroup_map,
                                         AttrGet(tree[j].attrs, "partnumber", ""), ""))]
               ELSE tree[j]])

Names(objects) ==
    LET plain == SelectSeq(objects, LAMBDA o : ~o.is_assembly)
    IN [i \in 1..Len(plain) |-> plain[i].name]

Raised == [raised |-> TRUE, text |-> <<>>, mode |-> ""]

(* l.596-604: the three edits and the text written back *)
ColorizeWith(inserted, objects, final_color_mode) ==
    [raised |-> FALSE,
     text |-> Serialize(add_build_materials(
                  add_triangle_colors(inserted.tree, objects, inserted.map),
                  inserted.map)),
     mode |-> final_color_mode]

(* l.584-593: without a resources element the call raises *)
ColorizeMode(root, resources, objects, final_color_mode) ==
    IF resources = 0 THEN Raised
    ELSE ColorizeWith(insert_colorgroups(root, resources, final_color_mode),
                      objects, final_color_mode)

(* l.566-581: the catalog and the mode; get_objects_info raises without a  *)
(* resources element (l.233).                                              *)
ColorizeObjects(root, objects, mode) ==
    IF FindResources(root) = 0 THEN Raised
    ELSE ColorizeMode(root, FirstChild(root, 1, "resources"), objects,
                      IF mode = "auto" THEN detect_color_mode(Names(objects))
                      ELSE mode)

(* l.559-563: ET.fromstring raises on a text it cannot read *)
ColorizeParsed(parsed, mode) ==
    IF ~parsed.ok THEN Raised
    ELSE ColorizeObjects(parsed.nodes, get_objects_info(parsed.nodes), mode)

(* l.535-613 *)
add_colors_to_xml_string(xml_string, mode) ==
    ColorizeParsed(Parse(xml_string), mode)

-----------------------------------------------------------------------------
(* Input documents *)

(* One triangle, with the attributes it has in the input *)
Triangle(pid) ==
    <<LT("", "triangle"), ATTR("v1", "0")>>
    \o (IF pid # "" THEN <<ATTR("pid", pid)>> ELSE <<>>) \o <<SGT>>

MeshOf(inner) ==
    <<LT("", "mesh"), GT, LT("", "vertices"), GT, CLOSE("", "vertices")>>
    \o inner \o <<CLOSE("", "mesh")>>

TrianglesOf(inner) ==
    <<LT("", "triangles"), GT>> \o inner \o <<CLOSE("", "triangles")>>

ComponentsOf(oid) ==
    <<LT("", "components"), GT, LT("", "component"), ATTR("objectid", oid), SGT,
      CLOSE("", "components")>>

BodyTokens(body) ==
    CASE body = "mesh"   -> MeshOf(TrianglesOf(Triangle("") \o Triangle("")))
      [] body = "tagged" -> MeshOf(TrianglesOf(Triangle("9") \o Triangle("")))
      [] body = "odd"    -> MeshOf(TrianglesOf(<<LT("", "note"), SGT>> \o Triangle("")))
      [] body = "notri"  -> MeshOf(<<>>)
      [] body = "asm"    -> ComponentsOf("1")
      [] body = "asmmesh" -> ComponentsOf("1") \o MeshOf(TrianglesOf(Triangle("")))
      [] OTHER           -> <<>>

(* An object element: o.id and o.name are "" for no such attribute, o.nv   *)
(* says whether the name comes before or after the id.                     *)
ObjectTokens(o) ==
    <<LT("", "object")>>
    \o (IF o.name # "" /\ o.nv = "first" THEN <<ATTR("name", o.name)>> ELSE <<>>)
    \o (IF o.id # "" THEN <<ATTR("id", o.id)>> ELSE <<>>)
    \o (IF o.name # "" /\ o.nv # "first" THEN <<ATTR("name", o.name)>> ELSE <<>>)
    \o <<GT>> \o BodyTokens(o.body) \o <<CLOSE("", "object")>>

RECURSIVE ObjectsTokens(_)
ObjectsTokens(objs) ==
    IF objs = <<>> THEN <<>>
    ELSE ObjectTokens(Head(objs)) \o ObjectsTokens(Tail(objs))

OtherResource(id) ==
    <<LT("", "basematerials"), ATTR("id", id), GT, CLOSE("", "basematerials")>>

RECURSIVE ItemsTokens(_)
ItemsTokens(items) ==
    IF items = <<>> THEN <<>>
    ELSE <<LT("", "item"), ATTR("objectid", Head(items)[1])>>
         \o (IF Head(items)[2] # "" THEN <<ATTR("partnumber", Head(items)[2])>>
             ELSE <<>>)
         \o <<SGT>> \o ItemsTokens(Tail(items))

BuildTokens(kind, items) ==
    CASE kind = "lit"  -> <<LT("", "build"), GT>> \o ItemsTokens(items)
                          \o <<CLOSE("", "build")>>
      [] kind = "attr" -> <<LT("", "build"), ATTR("UUID", "b"), GT>>
                          \o ItemsTokens(items) \o <<CLOSE("", "build")>>
      [] OTHER         -> <<>>

(* d.ns: the default namespace declared on the root, "" for none;          *)
(* d.shape: "ok", "junk" (text ET cannot read) or "nowrap" (the objects    *)
(* are not inside a resources element); d.others: other resources around   *)
(* the objects.                                                            *)
Document(d) ==
    <<LT("", "model")>>
    \o (IF d.ns # "" THEN <<ATTR("xmlns", d.ns)>> ELSE <<>>) \o <<GT>>
    \o (IF d.shape # "nowrap" THEN <<LT("", "resources"), GT>> ELSE <<>>)
    \o (IF d.others THEN OtherResource("8") ELSE <<>>)
    \o ObjectsTokens(d.objs)
    \o (IF d.others THEN OtherResource("9") ELSE <<>>)
    \o (IF d.shape # "nowrap" THEN <<CLOSE("", "resources")>> ELSE <<>>)
    \o BuildTokens(d.build, d.items)
    \o (IF d.shape = "junk" THEN <<JUNK>> ELSE <<>>)
    \o <<CLOSE("", "model")>>

SeqsUpTo(S, n) == UNION {[1..k -> S] : k \in 0..n}

-----------------------------------------------------------------------------
(* safe_fix_3mf_names, helpers.py l.16-146, stage by stage *)

(* name.endswith('.model') and '3D/' in name, for the entry names in use *)
EndsWithModel(name) == name \in {"3D/3dmodel.model", "Metadata/plate.model"}
Contains3D(name) == name \in {"3D/3dmodel.model", "3D/thumbnail.png"}

IsModelEntry(name) == EndsWithModel(name) /\ Contains3D(name)

(* l.39-43: the first entry that looks like the model, "" for None *)
FindModelFile(data) ==
    LET S == {i \in 1..Len(data) : IsModelEntry(data[i].name)}
    IN IF S = {} THEN "" ELSE data[Min(S)].name

(* files_data[name] *)
DataOf(data, name) ==
    data[CHOOSE i \in 1..Len(data) : data[i].name = name].bytes

(* An assignment that lands on the first key of the dict, whatever name is *)
DataSetFirst(data, name, bytes) ==
    [i \in 1..Len(data) |->
        IF i = 1 THEN [data[i] EXCEPT !.bytes = bytes] ELSE data[i]]

(* files_data[name] = bytes, for a key the dict has *)
DataSet(data, name, bytes) ==
    [i \in 1..Len(data) |->
        IF data[i].name = name THEN [data[i] EXCEPT !.bytes = bytes] ELSE data[i]]

(* str.encode('utf-8') and bytes.decode('utf-8'); decoding bytes that are  *)
(* not UTF-8 raises.                                                       *)
Encode(text) == [utf8 |-> TRUE, text |-> text]
Decodes(bytes) == bytes.utf8
Decode(bytes) == bytes.text

Blob == [utf8 |-> FALSE, text |-> <<JUNK, JUNK>>]
Xml  == [utf8 |-> TRUE, text |-> <<LT("", "Types"), SGT>>]

Entry(name, bytes) == [name |-> name, bytes |-> bytes]

(* The archives: a package with its model, one without a model entry (a    *)
(* .model outside 3D/ and a 3D/ entry that is no .model), one whose model  *)
(* is not UTF-8, and a file that is no ZIP archive.                        *)
Package(kind, text) ==
    CASE kind = "ok" ->
           [zip |-> TRUE,
            entries |-> <<Entry("[Content_Types].xml", Xml),
                          Entry("3D/3dmodel.model", Encode(text)),
                          Entry("Metadata/plate.model", Xml),
                          Entry("3D/thumbnail.png", Blob)>>]
      [] kind = "nomodel" ->
           [zip |-> TRUE,
            entries |-> <<Entry("[Content_Types].xml", Xml),
                          Entry("Metadata/plate.model", Encode(text)),
                          Entry("3D/thumbnail.png", Blob)>>]
      [] kind = "badutf8" ->
           [zip |-> TRUE,
            entries |-> <<Entry("[Content_Types].xml", Xml),
                          Entry("3D/3dmodel.model", [utf8 |-> FALSE, text |-> text])>>]
      [] OTHER -> [zip |-> FALSE, entries |-> <<>>]

(* The objects of the input documents of the pipeline *)
FixObjects ==
    { [id |-> "1", name |-> "",    nv |-> "last",  body |-> "mesh"],
      [id |-> "2", name |-> "Old", nv |-> "first", body |-> "mesh"],
      [id |-> "5", name |-> "Old", nv |-> "last",  body |-> "notri"],
      [id |-> "x", name |-> "",    nv |-> "last",  body |-> "mesh"] }

FixShapes ==
    { <<"ok", "lit">>, <<"ok", "attr">>, <<"ok", "none">>,
      <<"junk", "lit">>, <<"nowrap", "lit">>, <<"nowrap", "attr">> }

SlotLists ==
    LET warm == <<"Red", "Yellow", "Blue", "White">>
        sub  == <<"Cyan", "Magenta", "Yellow", "White">>
    IN {SubSeq(warm, 1, k) : k \in 0..MaxObjs} \cup {SubSeq(sub, 1, k) : k \in 0..MaxObjs}

ItemsFor(objs) == [i \in 1..Len(objs) |-> <<objs[i].id, "">>]

NoCall == [raised |-> FALSE, text |-> <<>>, mode |-> "none"]

Init ==
    /\ \E kind \in {"ok", "nomodel", "badutf8", "notzip"},
          objs \in SeqsUpTo(FixObjects, MaxObjs),
          sh \in FixShapes :
          /\ kind # "ok" => (Len(objs) = MaxObjs /\ sh = <<"ok", "lit">>)
          /\ archive = Package(kind,
                 Document([ns |-> MODEL_NAMESPACE, shape |-> sh[1], others |-> FALSE,
                           objs |-> objs, build |-> sh[2], items |-> ItemsFor(objs)]))
    /\ orig = archive
    /\ files_data = <<>>
    /\ model_file = ""
    /\ content = <<>>
    /\ obj_info = <<>>
    /\ slot_names \in SlotLists
    /\ create_assembly \in BOOLEAN
    /\ enable_colors \in BOOLEAN
    /\ color_mode \in {"None", "cmyw"}
    /\ ~enable_colors => color_mode = "None"
    /\ colored = NoCall
    /\ outcome = "none"
    /\ pc = "start"

(* What the handler of l.145-146 does with the exception it caught *)
ExceptOutcomeReraise == "raised"

ExceptOutcome == "returned"

(* l.33-46: read the archive, pick the model entry, decode it *)
ReadArchive ==
    /\ pc = "start"
    /\ IF ~archive.zip
       THEN /\ pc' = "except"
            /\ UNCHANGED <<files_data, model_file, content>>
       ELSE /\ files_data' = archive.entries
            /\ model_file' = FindModelFile(archive.entries)
            /\ IF model_file' = ""
               THEN pc' = "write" /\ UNCHANGED content
               ELSE IF Decodes(DataOf(archive.entries, model_file'))
               THEN /\ content' = Decode(DataOf(archive.entries, model_file'))
                    /\ pc' = "rename"
               ELSE pc' = "except" /\ UNCHANGED content
    /\ UNCHANGED <<archive, orig, obj_info, slot_names, create_assembly,
                   enable_colors, color_mode, colored, outcome>>

(* l.48-77: find the objects, rewrite their names *)
NameFix ==
    /\ pc = "rename"
    /\ obj_info' = ScanObjects(content, 1)
    /\ content' = RenameLoop(content, obj_info', slot_names, 0)
    /\ pc' = "assemble"
    /\ UNCHANGED <<archive, orig, files_data, model_file, slot_names,
                   create_assembly, enable_colors, color_mode, colored, outcome>>

(* l.79-108: the assembly object and the build section *)
Assemble ==
    /\ pc = "assemble"
    /\ content' = AssembleText(content, ObjectIds(obj_info), create_assembly)
    /\ pc' = "colors"
    /\ UNCHANGED <<archive, orig, files_data, model_file, obj_info, slot_names,
                   create_assembly, enable_colors, color_mode, colored, outcome>>

(* l.110-136: colorize inside its own try; the model entry of files_data   *)
(* is assigned at l.130 and at l.136 only.                                 *)
Colors ==
    /\ pc = "colors"
    /\ IF enable_colors
       THEN LET actual_color_mode ==
                    IF color_mode = "None" THEN detect_color_mode(slot_names)
                    ELSE color_mode
                r == add_colors_to_xml_string(content, actual_color_mode)
            IN /\ colored' = r
               /\ files_data' = IF r.raised THEN files_data
                                ELSE DataSet(files_data, model_file, Encode(r.text))
       ELSE /\ files_data' = DataSet(files_data, model_file, Encode(content))
            /\ UNCHANGED colored
    /\ pc' = "write"
    /\ UNCHANGED <<archive, orig, model_file, content, obj_info, slot_names,
                   create_assembly, enable_colors, color_mode, outcome>>

(* l.138-143: rewrite the archive from files_data *)
WriteBack ==
    /\ pc = "write"
    /\ archive' = [zip |-> TRUE, entries |-> files_data]
    /\ outcome' = "returned"
    /\ pc' = "done"
    /\ UNCHANGED <<orig, files_data, model_file, content, obj_info, slot_names,
                   create_assembly, enable_colors, color_mode, colored>>

(* l.145-146: except Exception: print a warning *)
Except ==
    /\ pc = "except"
    /\ outcome' = ExceptOutcome
    /\ pc' = "done"
    /\ UNCHANGED <<archive, orig, files_data, model_file, content, obj_info,
                   slot_names, create_assembly, enable_colors, color_mode, colored>>

Next ==
    \/ ReadArchive
    \/ NameFix
    \/ Assemble
    \/ Colors
    \/ WriteBack
    \/ Except

Spec == Init /\ [][Next]_vars

-----------------------------------------------------------------------------
(* add_colors_to_xml_string called on its own, and once more on its output *)

ColorObjects ==
    { [id |-> "1", name |-> "Red",    nv |-> "last", body |-> "tagged"],
      [id |-> "2", name |-> "Yellow", nv |-> "last", body |-> "mesh"],
      [id |-> "3", name |-> "Cyan",   nv |-> "last", body |-> "odd"],
      [id |-> "5", name |-> "Part",   nv |-> "last", body |-> "tagged"],
      [id |-> "6", name |-> "Red",    nv |-> "last", body |-> "asmmesh"],
      [id |-> "7", name |-> "",       nv |-> "last", body |-> "notri"] }

ColorItems ==
    << <<"1", "White">>, <<"2", "">>, <<"3", "Zed">>, <<"5", "Cyan">> >>

InitColorize ==
    /\ \E objs \in SeqsUpTo(ColorObjects, MaxObjs),
          ns \in {"", MODEL_NAMESPACE},
          others \in BOOLEAN,
          shape \in {"ok", "junk", "nowrap"},
          build \in {"none", "lit"} :
          /\ shape # "ok" => (ns = "" /\ ~others /\ build = "lit")
          /\ content = Document([ns |-> ns, shape |-> shape, others |-> others,
                                 objs |-> objs, build |-> build,
                                 items |-> ColorItems])
    /\ orig = content
    /\ color_mode \in {"auto", "rybw", "cmyw"}
    /\ archive = [zip |-> FALSE, entries |-> <<>>]
    /\ files_data = <<>>
    /\ model_file = ""
    /\ obj_info = <<>>
    /\ slot_names = <<>>
    /\ create_assembly = FALSE
    /\ enable_colors = TRUE
    /\ colored = NoCall
    /\ outcome = "none"
    /\ pc = "call"

(* l.535-613, the first call *)
Colorize ==
    /\ pc = "call"
    /\ colored' = add_colors_to_xml_string(content, color_mode)
    /\ pc' = IF colored'.raised THEN "raised" ELSE "once"
    /\ outcome' = IF colored'.raised THEN "raised" ELSE "returned"
    /\ UNCHANGED <<archive, orig, files_data, model_file, content, obj_info,
                   slot_names, create_assembly, enable_colors, color_mode>>

(* l.535-613, called again on the text the first call returned *)
ColorizeAgain ==
    /\ pc = "once"
    /\ content' = colored.text
    /\ colored' = add_colors_to_xml_string(colored.text, color_mode)
    /\ pc' = IF colored'.raised THEN "raised" ELSE "twice"
    /\ outcome' = IF colored'.raised THEN "raised" ELSE "returned"
    /\ UNCHANGED <<archive, orig, files_data, model_file, obj_info,
                   slot_names, create_assembly, enable_colors, color_mode>>

NextColorize ==
    \/ Colorize
    \/ ColorizeAgain

SpecColorize == InitColorize /\ [][NextColorize]_vars

-----------------------------------------------------------------------------
(* detect_color_mode on its own *)

DetectNames == {"Red", "Yellow", "Blue", "White", "Cyan", "Magenta", "Part"}

InitDetect ==
    /\ slot_names \in SeqsUpTo(DetectNames, MaxNames)
    /\ archive = [zip |-> FALSE, entries |-> <<>>]
    /\ orig = archive
    /\ files_data = <<>>
    /\ model_file = ""
    /\ content = <<>>
    /\ obj_info = <<>>
    /\ create_assembly = FALSE
    /\ enable_colors = TRUE
    /\ color_mode = "None"
    /\ colored = NoCall
    /\ outcome = "none"
    /\ pc = "detect"

(* l.98-119 *)
Detect ==
    /\ pc = "detect"
    /\ colored' = [raised |-> FALSE, text |-> <<>>,
                   mode |-> detect_color_mode(slot_names)]
    /\ outcome' = "returned"
    /\ pc' = "detected"
    /\ UNCHANGED <<archive, orig, files_data, model_file, content, obj_info,
                   slot_names, create_assembly, enable_colors, color_mode>>

NextDetect == Detect

SpecDetect == InitDetect /\ [][NextDetect]_vars

-----------------------------------------------------------------------------
(* Reading a text for the properties below *)

(* The positions of the start tags <name ...> of the text, in order *)
StartTags(text, name) ==
    SelectSeq([i \in 1..Len(text) |-> i], LAMBDA i : text[i] = LT("", name))

(* The attributes of the start tag at position i *)
TagAttrs(text, i) ==
    LET S == {j \in (i + 1)..Len(text) : text[j].t # "attr"}
    IN SubSeq(text, i + 1, IF S = {} THEN Len(text) ELSE Min(S) - 1)

Digits == {NumStr[n] : n \in 1..Len(NumStr)}

(* The object start tags that carry a numeric id, in order of appearance *)
FoundObjects(text) ==
    SelectSeq(StartTags(text, "object"),
              LAMBDA i : \E k \in 1..Len(TagAttrs(text, i)) :
                            /\ TagAttrs(text, i)[k].a = "id"
                            /\ TagAttrs(text, i)[k].b \in Digits)

FoundIds(text) ==
    [k \in 1..Len(FoundObjects(text)) |->
        AttrGet(TagAttrs(text, FoundObjects(text)[k]), "id", "")]

IdNumber(s) == CHOOSE n \in 1..Len(NumStr) : NumStr[n] = s

(* max(numeric ids) + 1, as a numeral *)
NextId(text) ==
    LET ids == {IdNumber(FoundIds(text)[k]) : k \in 1..Len(FoundIds(text))}
    IN NumStr[(CHOOSE m \in ids : \A n \in ids : n <= m) + 1]

NamesOf(attrs) == SelectSeq(attrs, LAMBDA x : x.a = "name")
NotNames(attrs) == SelectSeq(attrs, LAMBDA x : x.a # "name")

(* The model text of the input archive and of the archive as it is now *)
InputText == Decode(DataOf(orig.entries, model_file))
OutputText == Decode(DataOf(archive.entries, model_file))

HasModel == pc # "start" /\ model_file # "" /\ Decodes(DataOf(orig.entries, model_file))

-----------------------------------------------------------------------------
(* C1: with enable_colors on, when the colorize stage raises, the call     *)
(* still finishes and the model entry written to the archive is the        *)
(* name-fixed (and assembly-bearing) text: the rename and assembly edits   *)
(* are kept, only the colouring is lost.                                   *)
C1_ColorFailureKeepsEdits ==
    (pc = "done" /\ HasModel /\ enable_colors /\ colored.raised)
        => (outcome = "returned" /\ OutputText = content)

(* C2: with at least two objects found and create_assembly on, the build   *)
(* section of the written model holds exactly one item, whose objectid is  *)
(* max(pre-existing numeric ids) + 1.                                      *)
C2_BuildReferencesAssemblyOnly ==
    (pc = "done" /\ HasModel /\ create_assembly /\ Len(FoundObjects(InputText)) >= 2)
        => LET items == StartTags(OutputText, "item")
           IN /\ StartTags(OutputText, "build") # <<>>
              /\ Len(items) = 1
              /\ AttrGet(TagAttrs(OutputText, items[1]), "objectid", "")
                     = NextId(InputText)

(* The input is not a valid archive, or the archive has no model entry *)
StructuralError ==
    \/ ~orig.zip
    \/ ~\E i \in 1..Len(orig.entries) :
           EndsWithModel(orig.entries[i].name) /\ Contains3D(orig.entries[i].name)

(* C3, as claimed: on a structural error the call is aborted and the       *)
(* failure reaches the caller instead of the call returning normally.      *)
C3_StructuralErrorSurfaces ==
    (pc = "done" /\ StructuralError) => outcome = "raised"

(* C3, amended: on a structural error the call returns normally; a file    *)
(* that is no archive is left as it was, an archive without a model entry  *)
(* is rewritten with the entries it had.                                   *)
C3_StructuralErrorSwallowed ==
    (pc = "done" /\ StructuralError)
        => /\ outcome = "returned"
           /\ IF orig.zip THEN archive.entries = orig.entries ELSE archive = orig

C3_Witness == pc = "done" /\ ~orig.zip /\ outcome = "returned"

(* C6: after the name-fix loop the i-th object found (in order of          *)
(* appearance, numeric id) carries exactly one name attribute, equal to    *)
(* slot_names[i], for every i within slot_names; the objects past the end  *)
(* of slot_names keep their start tag; nothing else of the text moves.     *)
C6_NamesByForwardPosition ==
    (pc = "assemble") =>
        LET before == FoundObjects(InputText)
            after  == FoundObjects(content)
        IN /\ Len(after) = Len(before)
           /\ SelectSeq(content, LAMBDA x : x.t # "attr")
                  = SelectSeq(InputText, LAMBDA x : x.t # "attr")
           /\ \A i \in 1..Len(before) :
                 IF i <= Len(slot_names)
                 THEN /\ NamesOf(TagAttrs(content, after[i]))
                            = <<ATTR("name", slot_names[i])>>
                      /\ NotNames(TagAttrs(content, after[i]))
                            = NotNames(TagAttrs(InputText, before[i]))
                 ELSE TagAttrs(content, after[i]) = TagAttrs(InputText, before[i])

C6_Witness ==
    /\ pc = "assemble"
    /\ Len(FoundObjects(InputText)) >= 2
    /\ Len(slot_names) = 1
    /\ NamesOf(TagAttrs(InputText, FoundObjects(InputText)[1])) # <<>>
    /\ NamesOf(TagAttrs(content, FoundObjects(content)[1]))
           = <<ATTR("name", slot_names[1])>>

(* The component objectids of the object whose start tag is at position i *)
ComponentIds(text, i) ==
    LET end == Min({j \in i..Len(text) : text[j] = CLOSE("", "object")})
        cs == SelectSeq(StartTags(text, "component"), LAMBDA j : j > i /\ j < end)
    IN [k \in 1..Len(cs) |-> AttrGet(TagAttrs(text, cs[k]), "objectid", "")]

(* C7: when create_assembly is on and more than one object was found, the *)
(* written model holds a new object with id max + 1 and the name           *)
(* Lumina_Model, with one component per object found, in order, ending     *)
(* right before the closing resources tag; otherwise it has no object more *)
(* than the input.                                                         *)
C7_AssemblySynthesized ==
    (pc = "done" /\ HasModel) =>
        LET objs == StartTags(OutputText, "object")
            last == objs[Len(objs)]
            stop == Find(OutputText, CLOSE("", "resources"))
        IN IF create_assembly /\ Len(FoundObjects(InputText)) > 1
           THEN /\ Len(objs) = Len(StartTags(InputText, "object")) + 1
                /\ AttrGet(TagAttrs(OutputText, last), "id", "") = NextId(InputText)
                /\ AttrGet(TagAttrs(OutputText, last), "name", "") = "Lumina_Model"
                /\ ComponentIds(OutputText, last) = FoundIds(InputText)
                /\ stop # 0
                /\ OutputText[stop - 1] = CLOSE("", "object")
                /\ \A j \in last..(stop - 1) :
                      j = last \/ OutputText[j] # LT("", "object")
           ELSE Len(objs) = Len(StartTags(InputText, "object"))

-----------------------------------------------------------------------------
(* Reading a parsed document for the properties below *)

(* The parent of element k, 0 for the root *)
ParentOf(tree, k) ==
    LET S == {j \in 1..(k - 1) : tree[j].depth = tree[k].depth - 1}
    IN IF S = {} THEN 0 ELSE CHOOSE j \in S : \A i \in S : i <= j

(* The children of the resources element of the document *)
ResourceKids(tree) ==
    LET S == {j \in 1..Len(tree) : tree[j].depth = 1 /\ tree[j].local = "resources"}
    IN IF S = {} THEN <<>> ELSE Children(tree, Min(S))

PaletteNames(mode) ==
    IF mode = "cmyw" THEN <<"Cyan", "Magenta", "Yellow", "White">>
    ELSE <<"Red", "Yellow", "Blue", "White">>

PaletteArgb(name) ==
    CASE name = "Red" -> "#FF0000FF" [] name = "Yellow" -> "#FFFF00FF"
      [] name = "Blue" -> "#0000FFFF" [] name = "White" -> "#FFFFFFFF"
      [] name = "Cyan" -> "#00FFFFFF" [] name = "Magenta" -> "#FF00FFFF"

(* The fixed ids: the position of the name in the palette of the mode *)
FixedId(mode, name) ==
    NumStr[CHOOSE i \in 1..4 : PaletteNames(mode)[i] = name]

InPalette(mode, name) == \E i \in 1..4 : PaletteNames(mode)[i] = name

(* The first call returned a text; what went in and what came out *)
ColorizedOnce == pc = "once"
DocIn == Parse(orig).nodes
DocOut == Parse(colored.text).nodes

IsColorgroup(n) == n.local = "colorgroup"

(* C4: the new colorgroups stand in the palette's order, right before the  *)
(* first object child of resources or, without one, at the end; the other  *)
(* children of resources keep their order and none is lost.                *)
C4_ColorgroupsInPaletteOrder ==
    ColorizedOnce =>
        LET din == DocIn
            dout == DocOut
            was == ResourceKids(din)
            now == ResourceKids(dout)
            objs == {i \in 1..Len(was) : din[was[i]].local = "object"}
            p == IF objs = {} THEN Len(was) ELSE Min(objs) - 1
        IN /\ Len(now) = Len(was) + 4
           /\ \A i \in 1..4 :
                 /\ IsColorgroup(dout[now[p + i]])
                 /\ AttrGet(dout[now[p + i] + 1].attrs, "color", "")
                        = PaletteArgb(PaletteNames(colored.mode)[i])
           /\ \A i \in 1..Len(was) :
                 LET j == IF i <= p THEN i ELSE i + 4
                 IN /\ dout[now[j]].local = din[was[i]].local
                    /\ dout[now[j]].attrs = din[was[i]].attrs

(* C5: after one colorize no other child of resources, colorgroup or       *)
(* object, carries the id of a colorgroup.                                 *)
C5_ColorgroupIdsUnique ==
    ColorizedOnce =>
        LET dout == DocOut
            now == ResourceKids(dout)
        IN \A i, j \in 1..Len(now) :
              (i # j /\ IsColorgroup(dout[now[i]]))
                  => AttrGet(dout[now[i]].attrs, "id", "")
                         # AttrGet(dout[now[j]].attrs, "id", "")

(* Triangle k of the input is one colorize is to tag: a child of the       *)
(* triangles element of the mesh of an object of resources that has no     *)
(* components and whose name is in the palette.                            *)
Eligible(tree, k, mode) ==
    LET t == ParentOf(tree, k)
        m == IF t = 0 THEN 0 ELSE ParentOf(tree, t)
        o == IF m = 0 THEN 0 ELSE ParentOf(tree, m)
        r == IF o = 0 THEN 0 ELSE ParentOf(tree, o)
    IN /\ r # 0
       /\ tree[t].local = "triangles" /\ tree[m].local = "mesh"
       /\ tree[o].local = "object" /\ tree[r].local = "resources"
       /\ ParentOf(tree, r) = 1
       /\ ~\E c \in (o + 1)..Len(tree) :
              tree[c].local = "components" /\ ParentOf(tree, c) = o
       /\ InPalette(mode, AttrGet(tree[o].attrs, "name", ""))

OwnerName(tree, k) ==
    AttrGet(tree[ParentOf(tree, ParentOf(tree, ParentOf(tree, k)))].attrs, "name", "")

NotColour(attrs) == SelectSeq(attrs, LAMBDA x : x.a \notin {"pid", "p1"})

(* A document without the elements colorize adds *)
Plain(tree) == SelectSeq(tree, LAMBDA n : n.ns # MATERIAL_NAMESPACE)

(* C8: after colorize a triangle is tagged iff it is a triangle of a       *)
(* non-assembly object whose name is in the palette; it then has pid = the *)
(* colorgroup id of that name and p1 = "0"; every other triangle has the   *)
(* attributes it had.                                                      *)
C8_OnlyEligibleTrianglesTagged ==
    ColorizedOnce =>
        LET din == DocIn
            dout == Plain(DocOut)
        IN /\ Len(dout) = Len(din)
           /\ \A k \in 1..Len(din) :
                 din[k].local = "triangle" =>
                    IF Eligible(din, k, colored.mode)
                    THEN /\ AttrGet(dout[k].attrs, "pid", "")
                               = FixedId(colored.mode, OwnerName(din, k))
                         /\ AttrGet(dout[k].attrs, "p1", "") = "0"
                         /\ NotColour(dout[k].attrs) = NotColour(din[k].attrs)
                    ELSE dout[k].attrs = din[k].attrs

C8_Witness ==
    /\ ColorizedOnce
    /\ LET din == DocIn
           dout == Plain(DocOut)
       IN /\ \E k \in 1..Len(din) :
                /\ din[k].local = "triangle" /\ Eligible(din, k, colored.mode)
                /\ AttrGet(dout[k].attrs, "p1", "") = "0"
          /\ \E k \in 1..Len(din) :
                /\ din[k].local = "triangle" /\ ~Eligible(din, k, colored.mode)
                /\ \E c \in 1..Len(din) : din[c].local = "components"

(* C9: after one colorize the re-parsed document has exactly one           *)
(* colorgroup per palette entry of the mode used, with the fixed id of the *)
(* entry (rybw Red 1, Yellow 2, Blue 3, White 4; cmyw Cyan 1, Magenta 2,   *)
(* Yellow 3, White 4) and its colour, and no other colorgroup.             *)
C9_OneColorgroupPerEntry ==
    ColorizedOnce =>
        LET dout == DocOut
            groups == {k \in 1..Len(dout) : IsColorgroup(dout[k])}
            Holds(k, name) ==
                /\ AttrGet(dout[k].attrs, "id", "") = FixedId(colored.mode, name)
                /\ AttrGet(dout[k + 1].attrs, "color", "") = PaletteArgb(name)
        IN /\ Cardinality(groups) = 4
           /\ colored.mode \in {"rybw", "cmyw"}
           /\ FixedId("rybw", "Red") = "1" /\ FixedId("rybw", "Blue") = "3"
           /\ FixedId("cmyw", "Cyan") = "1" /\ FixedId("cmyw", "Yellow") = "3"
           /\ \A i \in 1..4 :
                 Cardinality({k \in groups : Holds(k, PaletteNames(colored.mode)[i])}) = 1

C9_Witness ==
    /\ ColorizedOnce
    /\ colored.mode = "cmyw"
    /\ LET dout == DocOut
       IN \E k \in 1..Len(dout) :
             /\ IsColorgroup(dout[k])
             /\ AttrGet(dout[k].attrs, "id", "") = "3"
             /\ AttrGet(dout[k + 1].attrs, "color", "") = "#FFFF00FF"

(* C10: detect_color_mode answers cmyw exactly when more of the names are  *)
(* in the CMYW palette than in the RYBW palette, and rybw otherwise, ties  *)
(* and no match at all included.                                           *)
C10_CmywOnlyOnStrictMajority ==
    (pc = "detected") =>
        LET cmyw == Cardinality({i \in 1..Len(slot_names) :
                        slot_names[i] \in {"Cyan", "Magenta", "Yellow", "White"}})
            rybw == Cardinality({i \in 1..Len(slot_names) :
                        slot_names[i] \in {"Red", "Yellow", "Blue", "White"}})
        IN /\ colored.mode = IF cmyw > rybw THEN "cmyw" ELSE "rybw"
           /\ slot_names = <<"Cyan", "Magenta">> => colored.mode = "cmyw"
           /\ slot_names = <<"Yellow", "White">> => colored.mode = "rybw"

C10_Witness ==
    /\ pc = "detected"
    /\ slot_names = <<"Yellow", "White">>
    /\ colored.mode = "rybw"

-----------------------------------------------------------------------------
(* C11: when the call is over, every entry of the input archive other than *)
(* the model entry is in the archive with the bytes it had, whichever of   *)
(* the rename, assembly and colorize stages ran or failed.                 *)
C11_OtherEntriesRoundTrip ==
    (pc = "done" /\ orig.zip) =>
        \A i \in 1..Len(orig.entries) :
           orig.entries[i].name # model_file =>
              \E j \in 1..Len(archive.entries) :
                 /\ archive.entries[j].name = orig.entries[i].name
                 /\ archive.entries[j].bytes = orig.entries[i].bytes

C11_Witness ==
    /\ pc = "done" /\ HasModel
    /\ OutputText # InputText
    /\ \E i \in 1..Len(orig.entries) :
          /\ orig.entries[i].name # model_file
          /\ orig.entries[i].bytes = Blob
          /\ archive.entries[i] = orig.entries[i]

-----------------------------------------------------------------------------
(* The build element of a document: the positions of the children of the   *)
(* root called build.                                                      *)
BuildsOf(tree) == {b \in 1..Len(tree) : tree[b].depth = 1 /\ tree[b].local = "build"}

HasResources(tree) ==
    \E r \in 1..Len(tree) : tree[r].depth = 1 /\ tree[r].local = "resources"

(* din is the input, dout the output without the colorgroups, all the      *)
(* output with them.                                                       *)
ItemsTagged(din, dout, build, mode) ==
    \A k \in 1..Len(din) :
       (din[k].local = "item" /\ ParentOf(din, k) = build)
          => IF InPalette(mode, AttrGet(din[k].attrs, "partnumber", ""))
             THEN dout[k].attrs
                     = AttrSet(din[k].attrs, "materialid",
                          FixedId(mode, AttrGet(din[k].attrs, "partnumber", "")))
             ELSE dout[k].attrs = din[k].attrs

BuildItemsTagged(din, dout, all, mode) ==
    /\ Len(dout) = Len(din)
    /\ IF BuildsOf(din) = {}
       THEN /\ BuildsOf(dout) = {}
            /\ Cardinality({k \in 1..Len(all) : IsColorgroup(all[k])}) = 4
            /\ \A k \in 1..Len(din) :
                  (din[k].local = "triangle" /\ Eligible(din, k, mode))
                     => AttrGet(dout[k].attrs, "p1", "") = "0"
       ELSE ItemsTagged(din, dout, Min(BuildsOf(din)), mode)

InputReadable(parsed) == parsed.ok /\ HasResources(parsed.nodes)

(* C12: after colorize an item child of build has materialid = the          *)
(* colorgroup id of its partnumber iff the partnumber is a name of the     *)
(* palette, and every other item has the attributes it had; a document     *)
(* without a build element is not an error: the call returns, with the     *)
(* colorgroups inserted and the triangles tagged.                          *)
C12_BuildItemsByPartnumber ==
    /\ (pc \in {"once", "raised"} /\ InputReadable(Parse(orig))) => pc = "once"
    /\ ColorizedOnce
          => BuildItemsTagged(DocIn, Plain(DocOut), DocOut, colored.mode)

C12_Witness ==
    /\ ColorizedOnce
    /\ colored.mode = "cmyw"
    /\ LET dout == DocOut
       IN \E k, z \in 1..Len(dout) :
             /\ dout[k].local = "item"
             /\ AttrGet(dout[k].attrs, "partnumber", "") = "Cyan"
             /\ AttrGet(dout[k].attrs, "materialid", "") = "1"
             /\ dout[z].local = "item"
             /\ AttrGet(dout[z].attrs, "partnumber", "") = "Zed"
             /\ ~AttrHas(dout[z].attrs, "materialid")

-----------------------------------------------------------------------------
(* The ids on the object start tags of a text, and the objectids of its    *)
(* item tags.                                                              *)
ObjectIdsIn(text) ==
    {AttrGet(TagAttrs(text, StartTags(text, "object")[k]), "id", "") :
        k \in 1..Len(StartTags(text, "object"))}

ItemIdsIn(text) ==
    {AttrGet(TagAttrs(text, StartTags(text, "item")[k]), "objectid", "") :
        k \in 1..Len(StartTags(text, "item"))}

(* The text holds the synthesized assembly object *)
AssemblyInserted(text) ==
    \E k \in 1..Len(StartTags(text, "object")) :
       AttrGet(TagAttrs(text, StartTags(text, "object")[k]), "name", "")
          = "Lumina_Model"

(* C13: right after the Assemble stage the text never has a build item that *)
(* references an id no object carries, and never holds the inserted        *)
(* assembly object while a build item still references an object of the    *)
(* input: the insertion and the rewrite of build happen together or not at *)
(* all.                                                                    *)
C13_AssembleAllOrNothing ==
    pc = "colors" =>
        /\ ItemIdsIn(content) \subseteq ObjectIdsIn(content)
        /\ AssemblyInserted(content)
              => ItemIdsIn(content) \cap ObjectIdsIn(InputText) = {}

-----------------------------------------------------------------------------
(* The second call returned a text: content is what the first call wrote,  *)
(* colored.text what the second wrote from it.                             *)
ColorizedTwice == pc = "twice"

(* The colorgroups of a document that carry the id *)
GroupsWithId(tree, id) ==
    {k \in 1..Len(tree) :
        IsColorgroup(tree[k]) /\ AttrGet(tree[k].attrs, "id", "") = id}

(* first is the output of the first call, second that of the second; the   *)
(* triangles are compared with the colorgroups left out.                   *)
SameTriangles(was, now) ==
    /\ Len(now) = Len(was)
    /\ \A k \in 1..Len(was) :
          /\ now[k].local = was[k].local
          /\ was[k].local = "triangle" => now[k].attrs = was[k].attrs

SecondRunDuplicates(first, second) ==
    /\ \A i \in 1..4 :
          /\ Cardinality(GroupsWithId(first, NumStr[i])) = 1
          /\ Cardinality(GroupsWithId(second, NumStr[i])) = 2
    /\ SameTriangles(Plain(first), Plain(second))

(* C14: a second colorize on the output of the first is not refused and    *)
(* does not raise; it inserts a second full set of colorgroups, so each    *)
(* palette id is on two colorgroups, and every triangle keeps the          *)
(* attributes the first run left it, pid and p1 included.                  *)
C14_SecondRunDuplicatesColorgroups ==
    /\ pc = "raised" => content = orig
    /\ ColorizedTwice
          => SecondRunDuplicates(Parse(content).nodes, Parse(colored.text).nodes)

C14_Witness ==
    /\ ColorizedTwice
    /\ LET second == Parse(colored.text).nodes
       IN /\ Cardinality({k \in 1..Len(second) : IsColorgroup(second[k])}) = 8
          /\ \E k \in 1..Len(second) :
                /\ second[k].local = "triangle"
                /\ AttrGet(second[k].attrs, "p1", "") = "0"

====
